---- MODULE Spec2Model ----
(***************************************************************************)
(* A model of standards_scraper.py: the PDF text normaliser, the section   *)
(* splitter, the field extractor, the A/B merger with its serialiser, and  *)
(* the sequential main program.  Python strings are modelled as sequences  *)
(* of one-character strings, so that searching, splitting, stripping and   *)
(* case folding are computed character by character as the code does.      *)
(***************************************************************************)
EXTENDS Integers, Sequences, FiniteSets, TLC

VARIABLES
    pc,                 \* position of the program (or of the function under study)
    raw,                \* clean_text: the text handed to clean_text
    cleaned,            \* clean_text: its return value
    section_text,       \* extract_section_data: its argument
    extracted,          \* extract_section_data: <<weight_classes, totals>> returned
    text,               \* scrape: the normalised text of the document
    i,                  \* scrape: index of the age group the outer loop is at
    sections,           \* scrape: <<section_start, next_section_start>> per group
    data,               \* scrape: the records collected so far
    a_data,             \* the A table
    b_data,             \* the B table
    j,                  \* format_as_typescript: index of the next table entry
    age_group_data,     \* format_as_typescript: bracket -> entries in insertion order
    typescript_output,  \* format_as_typescript: the serialised lines
    requested,          \* main: the URLs requested so far, in order
    artifact            \* main: content of qualifyingTotals.ts, or NoFile

cleanVars == <<raw, cleaned>>
extractVars == <<section_text, extracted>>
scrapeVars == <<text, i, sections, data>>
formatVars == <<a_data, b_data, j, age_group_data, typescript_output>>
mainVars == <<requested, artifact>>
vars == <<pc, cleanVars, extractVars, scrapeVars, formatVars, mainVars>>

\* The value of a variable the component under study does not use.
Idle == "idle"

CleanIdle == raw = Idle /\ cleaned = Idle
ExtractIdle == section_text = Idle /\ extracted = Idle
ScrapeIdle == text = Idle /\ i = Idle /\ sections = Idle /\ data = Idle
FormatIdle ==
    /\ a_data = Idle
    /\ b_data = Idle
    /\ j = Idle
    /\ age_group_data = Idle
    /\ typescript_output = Idle
MainIdle == requested = Idle /\ artifact = Idle

(***************************************************************************)
(* Characters.                                                             *)
(***************************************************************************)
\* The non-breaking space U+00A0, written '\xa0' in the source.
NBSP == "nbsp"

\* Mutant: \s as under re.ASCII, which leaves U+00A0 out.
IsReSpaceAscii(c) == c \in {" ", "\t", "\n", "\r"}

\* What \s matches in a Python 3 str pattern: Unicode whitespace, U+00A0 included.
IsReSpace(c) == c \in {" ", "\t", "\n", "\r", NBSP}

\* What str.strip() and str.split() without argument treat as whitespace.
IsStrSpace(c) == c \in {" ", "\t", "\n", "\r", NBSP}

(***************************************************************************)
(* clean_text                                                              *)
(***************************************************************************)
\* First index >= i of t that holds no \s character (Len(t) + 1 if none).
RECURSIVE SkipReSpace(_, _)
SkipReSpace(t, at) ==
    IF at <= Len(t) /\ IsReSpace(t[at]) THEN SkipReSpace(t, at + 1) ELSE at

\* A character that continues a run of \s characters begun before it.
ContinuesRun(m) == m[2] /\ m[3]

\* re.sub(r'\s+', ' ', text): every maximal run of \s characters becomes one
\* space.  Each character is marked <<c, c is \s, its predecessor is \s>>; the
\* characters that continue a run are dropped and the first of a run becomes
\* the replacement.
SubSpaceRuns(t) ==
    LET marked == [k \in 1..Len(t) |->
                      <<t[k], IsReSpace(t[k]), k > 1 /\ IsReSpace(t[k - 1])>>]
        LeadsOrPlain(m) == ~ContinuesRun(m)
        kept == SelectSeq(marked, LeadsOrPlain)
    IN  [k \in 1..Len(kept) |-> IF kept[k][2] THEN " " ELSE kept[k][1]]

\* text.replace('\xa0', ' ')
ReplaceNbsp(t) == [k \in 1..Len(t) |-> IF t[k] = NBSP THEN " " ELSE t[k]]

RECURSIVE LStrip(_)
LStrip(t) == IF t # <<>> /\ IsStrSpace(Head(t)) THEN LStrip(Tail(t)) ELSE t

RECURSIVE RStrip(_)
RStrip(t) ==
    IF t # <<>> /\ IsStrSpace(t[Len(t)]) THEN RStrip(SubSeq(t, 1, Len(t) - 1)) ELSE t

\* str.strip()
Strip(t) == RStrip(LStrip(t))

clean_text(txt) == Strip(ReplaceNbsp(SubSpaceRuns(txt)))

(***************************************************************************)
(* extract_section_data                                                    *)
(***************************************************************************)
\* Case folding of the letters the patterns name (re.IGNORECASE).
Lower(c) ==
    CASE c = "C" -> "c" [] c = "L" -> "l" [] c = "A" -> "a" [] c = "S" -> "s"
      [] c = "W" -> "w" [] c = "E" -> "e" [] c = "I" -> "i" [] c = "G" -> "g"
      [] c = "H" -> "h" [] c = "T" -> "t" [] c = "O" -> "o" [] c = "K" -> "k"
      [] OTHER -> c

\* \d
IsDigit(c) == c \in {"0", "1", "2", "3", "4", "5", "6", "7", "8", "9"}

\* The literal lit matches t at index i, letter case ignored.
MatchLiteral(t, at, lit) ==
    /\ at >= 1
    /\ at + Len(lit) - 1 <= Len(t)
    /\ \A k \in 1..Len(lit) : Lower(t[at + k - 1]) = Lower(lit[k])

\* The literal lit matches t at index i exactly (str.find, str.replace).
MatchExact(t, at, lit) ==
    /\ at >= 1
    /\ at + Len(lit) - 1 <= Len(t)
    /\ \A k \in 1..Len(lit) : t[at + k - 1] = lit[k]

\* \d* from index i: the first index that holds no digit.
RECURSIVE SkipDigits(_, _)
SkipDigits(t, at) ==
    IF at <= Len(t) /\ IsDigit(t[at]) THEN SkipDigits(t, at + 1) ELSE at

\* [:\s]* from index i: the first index that holds neither ':' nor whitespace.
RECURSIVE SkipColonSpace(_, _)
SkipColonSpace(t, at) ==
    IF at <= Len(t) /\ (t[at] = ":" \/ IsReSpace(t[at]))
    THEN SkipColonSpace(t, at + 1) ELSE at

StrKg == <<"k", "g">>
StrWeightClass == <<"W", "e", "i", "g", "h", "t", " ", "c", "l", "a", "s", "s">>
StrClass == <<"C", "l", "a", "s", "s">>
StrTotal == <<"T", "o", "t", "a", "l">>

\* (?:\d+(?:\.\d+)?kg|\+\d+kg) at index i: the index after the token, 0 if
\* the token does not match there.
WeightTokenEnd(t, at) ==
    LET d == SkipDigits(t, at)
        f == SkipDigits(t, d + 1)
        p == SkipDigits(t, at + 1)
    IN  IF d > at
        THEN IF d <= Len(t) /\ t[d] = "." /\ f > d + 1 /\ MatchLiteral(t, f, StrKg)
             THEN f + 2
             ELSE IF MatchLiteral(t, d, StrKg) THEN d + 2 ELSE 0
        ELSE IF at <= Len(t) /\ t[at] = "+" /\ p > at + 1 /\ MatchLiteral(t, p, StrKg)
             THEN p + 2
             ELSE 0

\* (?:\s+TOKEN)* after a token that ended before index e, greedy: the index
\* after the last token of the run.
RECURSIVE WeightRunEnd(_, _)
WeightRunEnd(t, e) ==
    LET s == SkipReSpace(t, e)
    IN  IF s > e /\ WeightTokenEnd(t, s) # 0
        THEN WeightRunEnd(t, WeightTokenEnd(t, s))
        ELSE e

\* weight_pattern tried at start index p: <<first, last>> of group(1), or
\* <<0, 0>> when the pattern does not match at p.
WeightMatchAt(t, p) ==
    LET q == IF MatchLiteral(t, p, StrWeightClass) THEN p + Len(StrWeightClass)
             ELSE IF MatchLiteral(t, p, StrClass) THEN p + Len(StrClass)
             ELSE 0
        r == SkipColonSpace(t, q)
    IN  IF q = 0 \/ WeightTokenEnd(t, r) = 0 THEN <<0, 0>>
        ELSE <<r, WeightRunEnd(t, WeightTokenEnd(t, r)) - 1>>

\* \d+(?:kg)? at index i, greedy: the index after the token, 0 if no match.
TotalTokenEnd(t, at) ==
    LET d == SkipDigits(t, at)
    IN  IF d = at THEN 0
        ELSE IF MatchLiteral(t, d, StrKg) THEN d + 2 ELSE d

\* (?:\s|$) at index e.
SpaceOrEnd(t, e) == e > Len(t) \/ IsReSpace(t[e])

\* \d+(?:kg)?(?:\s+\d+(?:kg)?)*(?:\s|$) after a token that ended before
\* index e, prev the end of the token before it (0 for the first token): the
\* greedy run is taken when whitespace or the end follows it; otherwise the
\* matcher backtracks and drops the last token of the run (which whitespace
\* follows); a single token that nothing of the kind follows is no match (0).
RECURSIVE TotalRunEnd(_, _, _)
TotalRunEnd(t, prev, e) ==
    LET s == SkipReSpace(t, e)
    IN  IF s > e /\ TotalTokenEnd(t, s) # 0
        THEN TotalRunEnd(t, e, TotalTokenEnd(t, s))
        ELSE IF SpaceOrEnd(t, e) THEN e ELSE prev

\* total_pattern tried at start index p: <<first, last>> of group(1), or
\* <<0, 0>> when the pattern does not match at p.
TotalMatchAt(t, p) ==
    LET q == IF MatchLiteral(t, p, StrTotal) THEN p + Len(StrTotal) ELSE 0
        r == SkipColonSpace(t, q)
        e == IF q = 0 \/ TotalTokenEnd(t, r) = 0 THEN 0
             ELSE TotalRunEnd(t, 0, TotalTokenEnd(t, r))
    IN  IF e = 0 THEN <<0, 0>> ELSE <<r, e - 1>>

\* The least element of a non-empty set of indices.
MinOf(S) == CHOOSE x \in S : \A y \in S : x <= y

\* re.search: the match at the leftmost start index, <<0, 0>> for None.
SearchWeight(t) ==
    LET starts == {p \in 1..Len(t) : WeightMatchAt(t, p) # <<0, 0>>}
    IN  IF starts = {} THEN <<0, 0>> ELSE WeightMatchAt(t, MinOf(starts))

SearchTotal(t) ==
    LET starts == {p \in 1..Len(t) : TotalMatchAt(t, p) # <<0, 0>>}
    IN  IF starts = {} THEN <<0, 0>> ELSE TotalMatchAt(t, MinOf(starts))

\* First index >= i of t that holds whitespace (Len(t) + 1 if none).
RECURSIVE SkipWord(_, _)
SkipWord(t, at) ==
    IF at <= Len(t) /\ ~IsStrSpace(t[at]) THEN SkipWord(t, at + 1) ELSE at

RECURSIVE SkipStrSpace(_, _)
SkipStrSpace(t, at) ==
    IF at <= Len(t) /\ IsStrSpace(t[at]) THEN SkipStrSpace(t, at + 1) ELSE at

\* str.split() without argument, from index i on: the words between runs of
\* whitespace, none of them empty.
RECURSIVE SplitFrom(_, _)
SplitFrom(t, at) ==
    LET s == SkipStrSpace(t, at)
        e == SkipWord(t, s)
    IN  IF s > Len(t) THEN <<>>
        ELSE <<SubSeq(t, s, e - 1)>> \o SplitFrom(t, e)

Split(t) == SplitFrom(t, 1)

\* t.replace('kg', ''), from index i on: exact letter case.
RECURSIVE RemoveKg(_, _)
RemoveKg(t, at) ==
    IF at > Len(t) THEN <<>>
    ELSE IF MatchExact(t, at, StrKg) THEN RemoveKg(t, at + 2)
    ELSE <<t[at]>> \o RemoveKg(t, at + 1)

\* [f(w) for w in words if w.strip()]
RECURSIVE StripEach(_)
StripEach(words) ==
    IF words = <<>> THEN <<>>
    ELSE IF Strip(Head(words)) = <<>> THEN StripEach(Tail(words))
    ELSE <<Strip(Head(words))>> \o StripEach(Tail(words))

RECURSIVE StripKgEach(_)
StripKgEach(words) ==
    IF words = <<>> THEN <<>>
    ELSE IF Strip(Head(words)) = <<>> THEN StripKgEach(Tail(words))
    ELSE <<Strip(RemoveKg(Head(words), 1))>> \o StripKgEach(Tail(words))

\* Mutant: the count comparison done here, two empty lists on a mismatch.
extract_section_data_checked(sec) ==
    LET weight_line == SearchWeight(sec)
        total_line == SearchTotal(sec)
        ws == StripEach(Split(SubSeq(sec, weight_line[1], weight_line[2])))
        ts == StripKgEach(Split(SubSeq(sec, total_line[1], total_line[2])))
    IN  IF weight_line = <<0, 0>> \/ total_line = <<0, 0>> \/ Len(ws) # Len(ts)
        THEN <<<<>>, <<>>>>
        ELSE <<ws, ts>>

\* extract_section_data: <<weight_classes, totals>>.
extract_section_data(sec) ==
    LET weight_line == SearchWeight(sec)
        total_line == SearchTotal(sec)
    IN  IF weight_line = <<0, 0>> \/ total_line = <<0, 0>>
        THEN <<<<>>, <<>>>>
        ELSE <<StripEach(Split(SubSeq(sec, weight_line[1], weight_line[2]))),
               StripKgEach(Split(SubSeq(sec, total_line[1], total_line[2])))>>


(***************************************************************************)
(* scrape_weightlifting_standards                                          *)
(***************************************************************************)
\* age_groups, in list order.
age_groups ==
    << <<"Y", "o", "u", "t", "h", " ", "W", "o", "m", "e", "n">>,
       <<"Y", "o", "u", "t", "h", " ", "M", "e", "n">>,
       <<"J", "u", "n", "i", "o", "r", " ", "W", "o", "m", "e", "n">>,
       <<"J", "u", "n", "i", "o", "r", " ", "M", "e", "n">>,
       <<"S", "e", "n", "i", "o", "r", " ", "W", "o", "m", "e", "n">>,
       <<"S", "e", "n", "i", "o", "r", " ", "M", "e", "n">> >>

\* str.find(lit): the 1-based index of the first occurrence, 0 where Python
\* returns -1.
Find(t, lit) ==
    LET hits == {p \in 1..Len(t) : MatchExact(t, p, lit)}
    IN  IF hits = {} THEN 0 ELSE MinOf(hits)

\* group + ":" for every group of the list.
section_labels == [g \in 1..Len(age_groups) |-> age_groups[g] \o <<":">>]

\* text.find(group + ":")
LabelPos(t, g) == Find(t, section_labels[g])

\* Mutant: the inner loop looks at the next group of the list only and does
\* not go on to later ones when that label is absent.
NextSectionStartNoSkip(t, g) ==
    IF g > Len(age_groups) THEN Len(t) + 1
    ELSE LET next_pos == LabelPos(t, g)
         IN  IF next_pos # 0 THEN next_pos ELSE Len(t) + 1

\* Mutant: the inner loop never stops at a found label, so every section
\* runs to the end of the text.
NextSectionStartToEnd(t, g) == Len(t) + 1

\* The inner loop over age_groups[i+1:], from list index g on: the position
\* of the first later label that is found, else len(text) (1-based: one past
\* the last character).
RECURSIVE NextSectionStart(_, _)
NextSectionStart(t, g) ==
    IF g > Len(age_groups) THEN Len(t) + 1
    ELSE LET next_pos == LabelPos(t, g)
         IN  IF next_pos # 0 THEN next_pos ELSE NextSectionStart(t, g + 1)

\* <<section_start, next_section_start>> of group g; <<0, 0>> when the label
\* is not found and the group is skipped.
SectionBounds(t, g) ==
    LET section_start == LabelPos(t, g)
    IN  IF section_start = 0 THEN <<0, 0>>
        ELSE <<section_start, NextSectionStart(t, g + 1)>>

\* text[section_start:next_section_start]: empty when the end is not after
\* the start.
Slice(t, b) == SubSeq(t, b[1], b[2] - 1)

\* zip(weight_classes, totals) turned into records of one age group.
Records(g, weight_classes, totals) ==
    [k \in 1..Len(weight_classes) |->
        [AgeGroup |-> age_groups[g],
         WeightClass |-> weight_classes[k],
         WeightStandard |-> totals[k]]]

\* Mutant: the lengths are not compared and zip pairs up to the shorter list.
SectionRecordsZipShorter(t, g) ==
    LET bounds == SectionBounds(t, g)
        ex == extract_section_data(Slice(t, bounds))
        n == IF Len(ex[1]) < Len(ex[2]) THEN Len(ex[1]) ELSE Len(ex[2])
    IN  IF bounds = <<0, 0>> THEN <<>>
        ELSE Records(g, SubSeq(ex[1], 1, n), SubSeq(ex[2], 1, n))

\* The records one pass of the outer loop appends to data.
SectionRecords(t, g) ==
    LET bounds == SectionBounds(t, g)
        ex == extract_section_data(Slice(t, bounds))
    IN  IF bounds = <<0, 0>> THEN <<>>
        ELSE IF Len(ex[1]) = Len(ex[2]) THEN Records(g, ex[1], ex[2])
        ELSE <<>>

RECURSIVE ScrapeFrom(_, _)
ScrapeFrom(t, g) ==
    IF g > Len(age_groups) THEN <<>>
    ELSE SectionRecords(t, g) \o ScrapeFrom(t, g + 1)

\* scrape_weightlifting_standards after the download: the records of the
\* text extracted from the document.
scrape_weightlifting_standards(extracted_text) ==
    ScrapeFrom(clean_text(extracted_text), 1)


(***************************************************************************)
(* weight_class_sort_key and format_as_typescript                          *)
(***************************************************************************)
\* The value of a decimal digit.
DigitValue(c) ==
    CASE c = "0" -> 0 [] c = "1" -> 1 [] c = "2" -> 2 [] c = "3" -> 3 [] c = "4" -> 4
      [] c = "5" -> 5 [] c = "6" -> 6 [] c = "7" -> 7 [] c = "8" -> 8 [] c = "9" -> 9

\* The number a string of digits denotes (0 for the empty string).
RECURSIVE DigitsValue(_)
DigitsValue(w) ==
    IF w = <<>> THEN 0
    ELSE 10 * DigitsValue(SubSeq(w, 1, Len(w) - 1)) + DigitValue(w[Len(w)])

RECURSIVE Pow10(_)
Pow10(n) == IF n = 0 THEN 1 ELSE 10 * Pow10(n - 1)

\* float(w) for w of the form digits or digits.digits, kept exact as the
\* fraction num / den.
ParseFloat(w) ==
    LET dot == Find(w, <<".">>)
        whole == IF dot = 0 THEN w ELSE SubSeq(w, 1, dot - 1)
        frac == IF dot = 0 THEN <<>> ELSE SubSeq(w, dot + 1, Len(w))
    IN  [inf |-> FALSE,
         num |-> DigitsValue(whole) * Pow10(Len(frac)) + DigitsValue(frac),
         den |-> Pow10(Len(frac))]

\* float('inf')
Infinity == [inf |-> TRUE, num |-> 0, den |-> 1]

\* float(w) can be computed: w is digits, optionally followed by .digits.
IsFloatLiteral(w) ==
    LET d == SkipDigits(w, 1)
    IN  /\ d > 1
        /\ \/ d = Len(w) + 1
           \/ w[d] = "." /\ SkipDigits(w, d + 1) = Len(w) + 1

\* int(float(w)): the fraction truncated.
IntOfFloat(w) == ParseFloat(w).num \div ParseFloat(w).den

\* x < y on floats.
FloatLess(x, y) ==
    IF x.inf THEN FALSE
    ELSE IF y.inf THEN TRUE
    ELSE x.num * y.den < y.num * x.den

\* The code points of the characters the gender strings are made of.
CharCode(c) ==
    CASE c = "F" -> 70 [] c = "M" -> 77 [] c = "a" -> 97 [] c = "e" -> 101
      [] c = "l" -> 108 [] c = "m" -> 109 [] OTHER -> 0

\* x < y on strings: the first differing character decides, a proper prefix
\* is smaller.
RECURSIVE StrLess(_, _)
StrLess(x, y) ==
    IF y = <<>> THEN FALSE
    ELSE IF x = <<>> THEN TRUE
    ELSE IF Head(x) = Head(y) THEN StrLess(Tail(x), Tail(y))
    ELSE CharCode(Head(x)) < CharCode(Head(y))

\* t.replace('kg', '') on a whole string.
WithoutKg(w) == RemoveKg(w, 1)

\* weight_class.split(' ', 1): <<gender, weight>>.
SplitGender(weight_class) ==
    LET sp == Find(weight_class, <<" ">>)
    IN  <<SubSeq(weight_class, 1, sp - 1), SubSeq(weight_class, sp + 1, Len(weight_class))>>

\* Mutant: an open class is keyed by its number like a finite one.
weight_class_sort_key_finite(weight_class) ==
    LET gw == SplitGender(weight_class)
    IN  IF gw[2] # <<>> /\ gw[2][1] = "+"
        THEN <<gw[1], ParseFloat(WithoutKg(Tail(gw[2])))>>
        ELSE <<gw[1], ParseFloat(WithoutKg(gw[2]))>>

\* weight_class_sort_key: <<gender, float>>.
weight_class_sort_key(weight_class) ==
    LET gw == SplitGender(weight_class)
    IN  IF gw[2] # <<>> /\ gw[2][1] = "+"
        THEN <<gw[1], Infinity>>
        ELSE <<gw[1], ParseFloat(WithoutKg(gw[2]))>>

\* k1 < k2 on the key tuples: the first component decides unless equal.
KeyLess(k1, k2) ==
    IF k1[1] # k2[1] THEN StrLess(k1[1], k2[1]) ELSE FloatLess(k1[2], k2[2])

\* sorted(..., key=...): stable, so an item goes after every item whose key is
\* not greater than its own.
RECURSIVE InsertSorted(_, _)
InsertSorted(sorted, item) ==
    IF sorted = <<>> THEN <<item>>
    ELSE IF KeyLess(weight_class_sort_key(item.weight_class),
                    weight_class_sort_key(Head(sorted).weight_class))
         THEN <<item>> \o sorted
         ELSE <<Head(sorted)>> \o InsertSorted(Tail(sorted), item)

RECURSIVE SortedItems(_)
SortedItems(items) ==
    IF items = <<>> THEN <<>>
    ELSE InsertSorted(SortedItems(SubSeq(items, 1, Len(items) - 1)), items[Len(items)])

\* The keys of age_group_data, in insertion order.
brackets == << <<"Y", "o", "u", "t", "h">>, <<"J", "u", "n", "i", "o", "r">>, <<"S", "e", "n", "i", "o", "r">> >>

StrWomen == <<"W", "o", "m", "e", "n">>
StrFemale == <<"F", "e", "m", "a", "l", "e">>
StrMale == <<"M", "a", "l", "e">>

\* entry["Age Group"].split()[0], as the index of that key of age_group_data.
BracketOf(entry) ==
    CHOOSE k \in 1..Len(brackets) : brackets[k] = Split(entry.AgeGroup)[1]

\* f"{gender} {entry['Weight Class']}"
GenderedClass(entry) ==
    (IF Find(entry.AgeGroup, StrWomen) # 0 THEN StrFemale ELSE StrMale)
        \o <<" ">> \o entry.WeightClass

\* weight_class in age_group_data[age_group]
HasKey(items, weight_class) == \E k \in 1..Len(items) : items[k].weight_class = weight_class

\* The table before the first entry: three empty dicts.
EmptyTable == [k \in 1..Len(brackets) |-> <<>>]

\* Mutant: an A record overwrites the a of a key already there.
ProcessAOverwrite(agd, entry) ==
    LET age_group == BracketOf(entry)
        weight_class == GenderedClass(entry)
        standard_a == IntOfFloat(entry.WeightStandard)
    IN  IF HasKey(agd[age_group], weight_class)
        THEN [agd EXCEPT ![age_group] =
                 [k \in 1..Len(@) |->
                     IF @[k].weight_class = weight_class
                     THEN [@[k] EXCEPT !.a = standard_a] ELSE @[k]]]
        ELSE [agd EXCEPT ![age_group] =
                 Append(@, [weight_class |-> weight_class, a |-> standard_a, b |-> 0])]

\* One pass of the loop over a_data: a new key gets {"a": standard_a, "b": 0},
\* a key already there is left alone.
ProcessA(agd, entry) ==
    LET age_group == BracketOf(entry)
        weight_class == GenderedClass(entry)
        standard_a == IntOfFloat(entry.WeightStandard)
    IN  IF HasKey(agd[age_group], weight_class) THEN agd
        ELSE [agd EXCEPT ![age_group] =
                 Append(@, [weight_class |-> weight_class, a |-> standard_a, b |-> 0])]

\* Mutant: a B record whose key is not there yet is dropped.
ProcessBExistingOnly(agd, entry) ==
    LET age_group == BracketOf(entry)
        weight_class == GenderedClass(entry)
        standard_b == IntOfFloat(entry.WeightStandard)
    IN  [agd EXCEPT ![age_group] =
            [k \in 1..Len(@) |->
                IF @[k].weight_class = weight_class
                THEN [@[k] EXCEPT !.b = standard_b] ELSE @[k]]]

\* One pass of the loop over b_data: the b of a key already there is set, a
\* new key gets {"a": 0, "b": standard_b}.
ProcessB(agd, entry) ==
    LET age_group == BracketOf(entry)
        weight_class == GenderedClass(entry)
        standard_b == IntOfFloat(entry.WeightStandard)
    IN  IF HasKey(agd[age_group], weight_class)
        THEN [agd EXCEPT ![age_group] =
                 [k \in 1..Len(@) |->
                     IF @[k].weight_class = weight_class
                     THEN [@[k] EXCEPT !.b = standard_b] ELSE @[k]]]
        ELSE [agd EXCEPT ![age_group] =
                 Append(@, [weight_class |-> weight_class, a |-> 0, b |-> standard_b])]

\* The lines of one bracket: its opening line, one line per entry in sorted
\* order, its closing line.
BracketLines(agd, k) ==
    LET sorted == SortedItems(agd[k])
    IN  <<[line |-> "bracket", age_group |-> brackets[k]]>>
        \o [n \in 1..Len(sorted) |->
               [line |-> "entry", weight_class |-> sorted[n].weight_class,
                a |-> sorted[n].a, b |-> sorted[n].b]]
        \o <<[line |-> "end_bracket"]>>

RECURSIVE AllBracketLines(_, _)
AllBracketLines(agd, k) ==
    IF k > Len(brackets) THEN <<>>
    ELSE BracketLines(agd, k) \o AllBracketLines(agd, k + 1)

\* Lines 112 and 143-154: the serialised text, line by line.
Generate(agd) ==
    <<[line |-> "export const standards = {"]>>
        \o AllBracketLines(agd, 1)
        \o <<[line |-> "};"]>>

RECURSIVE FoldA(_, _)
FoldA(agd, entries) ==
    IF entries = <<>> THEN agd ELSE FoldA(ProcessA(agd, Head(entries)), Tail(entries))

RECURSIVE FoldB(_, _)
FoldB(agd, entries) ==
    IF entries = <<>> THEN agd ELSE FoldB(ProcessB(agd, Head(entries)), Tail(entries))

\* format_as_typescript(a_data, b_data)
format_as_typescript(a_entries, b_entries) ==
    Generate(FoldB(FoldA(EmptyTable, a_entries), b_entries))

(***************************************************************************)
(* Specification SpecClean: clean_text applied to every short text over a  *)
(* small alphabet, then re-applied after the whitespace of the input is    *)
(* varied (one whitespace character exchanged for another, or a run made   *)
(* longer or shorter).                                                     *)
(***************************************************************************)
MaxRawLen == 4

CleanAlphabet == {"a", "b", " ", "\t", "\n", NBSP}
CleanWhitespace == {c \in CleanAlphabet : IsStrSpace(c)}

RawTexts == UNION {[1..n -> CleanAlphabet] : n \in 0..MaxRawLen}

InitClean ==
    /\ pc = "clean_input"
    /\ raw \in RawTexts
    /\ cleaned = <<>>
    /\ ExtractIdle
    /\ ScrapeIdle
    /\ FormatIdle
    /\ MainIdle

CleanText ==
    /\ pc = "clean_input"
    /\ cleaned' = clean_text(raw)
    /\ pc' = "clean_done"
    /\ UNCHANGED <<raw, extractVars, scrapeVars, formatVars, mainVars>>

\* The same text with the whitespace character at position k exchanged.
SubstWhitespace ==
    /\ pc = "clean_done"
    /\ \E k \in 1..Len(raw), c \in CleanWhitespace :
          /\ IsStrSpace(raw[k])
          /\ c # raw[k]
          /\ raw' = [raw EXCEPT ![k] = c]
    /\ cleaned' = clean_text(raw')
    /\ UNCHANGED <<pc, extractVars, scrapeVars, formatVars, mainVars>>

\* The same text with the whitespace run at position k one character longer.
GrowWhitespace ==
    /\ pc = "clean_done"
    /\ Len(raw) < MaxRawLen
    /\ \E k \in 1..Len(raw), c \in CleanWhitespace :
          /\ IsStrSpace(raw[k])
          /\ raw' = SubSeq(raw, 1, k) \o <<c>> \o SubSeq(raw, k + 1, Len(raw))
    /\ cleaned' = clean_text(raw')
    /\ UNCHANGED <<pc, extractVars, scrapeVars, formatVars, mainVars>>

\* The same text with a whitespace run of two or more one character shorter.
ShrinkWhitespace ==
    /\ pc = "clean_done"
    /\ \E k \in 1..(Len(raw) - 1) :
          /\ IsStrSpace(raw[k])
          /\ IsStrSpace(raw[k + 1])
          /\ raw' = SubSeq(raw, 1, k - 1) \o SubSeq(raw, k + 1, Len(raw))
    /\ cleaned' = clean_text(raw')
    /\ UNCHANGED <<pc, extractVars, scrapeVars, formatVars, mainVars>>

NextClean == CleanText \/ SubstWhitespace \/ GrowWhitespace \/ ShrinkWhitespace

SpecClean == InitClean /\ [][NextClean]_vars

(***************************************************************************)
(* Specification SpecExtract: extract_section_data applied to section      *)
(* texts made of an age-group label, a weight-class row and a totals row,  *)
(* with markers and kg suffixes in either letter case.                     *)
(***************************************************************************)
MaxLabels == 2
MaxTotals == 3

WeightMarkers == { <<"W", "e", "i", "g", "h", "t", " ", "c", "l", "a", "s", "s", ":">>, <<"C", "L", "A", "S", "S">> }
TotalMarkers == { <<"T", "o", "t", "a", "l", ":">>, <<"t", "o", "t", "a", "l">> }
WeightTokens == { <<"6", "0", "k", "g">>, <<"6", "5", "k", "g">>, <<"+", "8", "7", "K", "G">> }
TotalTokens == { <<"1", "2", "0">>, <<"1", "3", "0", "k", "g">>, <<"1", "4", "0", "K", "G">> }
\* What follows the totals row: nothing, or a decimal fraction of its last value.
RowSuffixes == { <<>>, <<".", "5">> }

\* The words of a row, each preceded by one space.
RECURSIVE SpaceJoined(_)
SpaceJoined(words) ==
    IF words = <<>> THEN <<>>
    ELSE <<" ">> \o Head(words) \o SpaceJoined(Tail(words))

SeqsUpTo(S, n) == UNION {[1..k -> S] : k \in 0..n}

SectionTexts ==
    { age_groups[6] \o <<":", " ">> \o wm \o SpaceJoined(ws)
        \o <<" ">> \o tm \o SpaceJoined(ts) \o sfx :
        wm \in WeightMarkers, ws \in SeqsUpTo(WeightTokens, MaxLabels),
        tm \in TotalMarkers, ts \in SeqsUpTo(TotalTokens, MaxTotals),
        sfx \in RowSuffixes }

InitExtract ==
    /\ pc = "extract_input"
    /\ section_text \in SectionTexts
    /\ extracted = <<<<>>, <<>>>>
    /\ CleanIdle
    /\ ScrapeIdle
    /\ FormatIdle
    /\ MainIdle

ExtractSectionData ==
    /\ pc = "extract_input"
    /\ extracted' = extract_section_data(section_text)
    /\ pc' = "extract_done"
    /\ UNCHANGED <<section_text, cleanVars, scrapeVars, formatVars, mainVars>>

NextExtract == ExtractSectionData

SpecExtract == InitExtract /\ [][NextExtract]_vars

(***************************************************************************)
(* Specification SpecScrape: scrape_weightlifting_standards after the      *)
(* download, one pass of its outer loop per step, on page texts made of    *)
(* labelled segments in any order, with repeated and missing labels.       *)
(***************************************************************************)
MaxSegments == 3

\* A weight-class row with two labels and a totals row with two values, and
\* one with one label and two values.
SegmentBodies ==
    { <<" ", "C", "l", "a", "s", "s", " ", "6", "0", "k", "g", " ", "+", "8", "7", "k", "g", "\n", "T", "o", "t", "a", "l", " ", "1", "2", "0", " ", "1", "3", "0", "k", "g">>,
      <<" ", "C", "l", "a", "s", "s", " ", "6", "0", "k", "g", "\n", "T", "o", "t", "a", "l", " ", "1", "2", "0", " ", "1", "3", "0">> }

\* The groups whose labels the page texts use (list indices): both Youth and
\* both Senior groups; the Junior labels are always missing.
PageGroups == {1, 2, 5, 6}

Segments ==
    { age_groups[g] \o <<":">> \o body \o <<"\n">> :
        g \in PageGroups, body \in SegmentBodies }

RECURSIVE Concat(_)
Concat(parts) == IF parts = <<>> THEN <<>> ELSE Head(parts) \o Concat(Tail(parts))

PageTexts == {Concat(parts) : parts \in SeqsUpTo(Segments, MaxSegments)}

InitScrape ==
    /\ pc = "scrape_extracted"
    /\ raw \in PageTexts
    /\ cleaned = Idle
    /\ ExtractIdle
    /\ ScrapeIdle
    /\ FormatIdle
    /\ MainIdle

\* Lines 57-61: the text is normalised and the loop set up.
ScrapeCleanText ==
    /\ pc = "scrape_extracted"
    /\ text' = clean_text(raw)
    /\ i' = 1
    /\ sections' = [g \in 1..Len(age_groups) |-> <<0, 0>>]
    /\ data' = <<>>
    /\ pc' = "scrape_loop"
    /\ UNCHANGED <<cleanVars, extractVars, formatVars, mainVars>>

\* Lines 68-70: the label is not found, continue.
ScrapeSkipGroup ==
    /\ pc = "scrape_loop"
    /\ i <= Len(age_groups)
    /\ LabelPos(text, i) = 0
    /\ i' = i + 1
    /\ UNCHANGED <<pc, text, sections, data, cleanVars, extractVars, formatVars, mainVars>>

\* Lines 72-97: the section of a found label is sliced, extracted and paired.
ScrapeSection ==
    /\ pc = "scrape_loop"
    /\ i <= Len(age_groups)
    /\ LabelPos(text, i) # 0
    /\ sections' = [sections EXCEPT ![i] = SectionBounds(text, i)]
    /\ data' = data \o SectionRecords(text, i)
    /\ i' = i + 1
    /\ UNCHANGED <<pc, text, cleanVars, extractVars, formatVars, mainVars>>

\* Line 99: return data.
ScrapeReturn ==
    /\ pc = "scrape_loop"
    /\ i > Len(age_groups)
    /\ pc' = "scrape_done"
    /\ UNCHANGED <<scrapeVars, cleanVars, extractVars, formatVars, mainVars>>

NextScrape == ScrapeCleanText \/ ScrapeSkipGroup \/ ScrapeSection \/ ScrapeReturn

SpecScrape == InitScrape /\ [][NextScrape]_vars

(***************************************************************************)
(* Specification SpecFormat: format_as_typescript, one table entry per     *)
(* step, on every pair of short tables over a small set of records, with   *)
(* repeated keys and keys present in one table only.                       *)
(***************************************************************************)
MaxEntries == 4

\* Senior Women in three classes (lexical and numeric order differ, one open
\* class), the first of them with either standard; Senior Men and Youth
\* Women in one class.
FormatRecords ==
    { [AgeGroup |-> age_groups[5], WeightClass |-> <<"5", "5", "k", "g">>, WeightStandard |-> <<"1", "1", "0">>],
      [AgeGroup |-> age_groups[5], WeightClass |-> <<"5", "5", "k", "g">>, WeightStandard |-> <<"1", "2", "0">>],
      [AgeGroup |-> age_groups[5], WeightClass |-> <<"1", "0", "0", "k", "g">>, WeightStandard |-> <<"1", "1", "0">>],
      [AgeGroup |-> age_groups[5], WeightClass |-> <<"+", "8", "7", "k", "g">>, WeightStandard |-> <<"1", "2", "0">>],
      [AgeGroup |-> age_groups[6], WeightClass |-> <<"5", "5", "k", "g">>, WeightStandard |-> <<"1", "1", "0">>],
      [AgeGroup |-> age_groups[1], WeightClass |-> <<"5", "5", "k", "g">>, WeightStandard |-> <<"1", "2", "0">>] }

\* The pairs of tables that hold at most MaxEntries records together.
TablePairs ==
    UNION { UNION { [1..na -> FormatRecords] \X [1..nb -> FormatRecords] :
                      nb \in 0..(MaxEntries - na) } :
              na \in 0..MaxEntries }

InitFormat ==
    /\ pc = "format_a"
    /\ \E tables \in TablePairs :
          /\ a_data = tables[1]
          /\ b_data = tables[2]
    /\ j = 1
    /\ age_group_data = EmptyTable
    /\ typescript_output = <<>>
    /\ CleanIdle
    /\ ExtractIdle
    /\ ScrapeIdle
    /\ MainIdle

\* Lines 122-129, one entry of a_data.
FormatEntryA ==
    /\ pc = "format_a"
    /\ j <= Len(a_data)
    /\ age_group_data' = ProcessA(age_group_data, a_data[j])
    /\ j' = j + 1
    /\ UNCHANGED <<pc, a_data, b_data, typescript_output,
                   cleanVars, extractVars, scrapeVars, mainVars>>

\* The loop over a_data is over; the loop over b_data starts.
FormatEndA ==
    /\ pc = "format_a"
    /\ j > Len(a_data)
    /\ pc' = "format_b"
    /\ j' = 1
    /\ UNCHANGED <<a_data, b_data, age_group_data, typescript_output,
                   cleanVars, extractVars, scrapeVars, mainVars>>

\* Lines 132-141, one entry of b_data.
FormatEntryB ==
    /\ pc = "format_b"
    /\ j <= Len(b_data)
    /\ age_group_data' = ProcessB(age_group_data, b_data[j])
    /\ j' = j + 1
    /\ UNCHANGED <<pc, a_data, b_data, typescript_output,
                   cleanVars, extractVars, scrapeVars, mainVars>>

\* Lines 143-154: the output is generated and returned.
FormatGenerate ==
    /\ pc = "format_b"
    /\ j > Len(b_data)
    /\ typescript_output' = Generate(age_group_data)
    /\ pc' = "format_done"
    /\ UNCHANGED <<a_data, b_data, j, age_group_data,
                   cleanVars, extractVars, scrapeVars, mainVars>>

NextFormat == FormatEntryA \/ FormatEndA \/ FormatEntryB \/ FormatGenerate

SpecFormat == InitFormat /\ [][NextFormat]_vars

(***************************************************************************)
(* Specification Spec: the main program.  Each document is a short         *)
(* sequence of pages; each download answers with some HTTP status.         *)
(***************************************************************************)
MaxPages == 2

\* The two URLs of lines 157-158.
a_standards_url == "2024_A_Standards_Updated.pdf"
b_standards_url == "2024_B_Standards_Updated.pdf"

\* The value of a name that is not bound yet, and of the file not written.
Unbound == "unbound"
NoFile == "no file"

HttpStatuses == {200, 404, 503}

\* Mutant: raise_for_status never raises.
RaisesNever(status) == FALSE

\* response.raise_for_status() raises for the 4xx and 5xx codes.
RaisesForStatus(status) == status >= 400 /\ status < 600

\* The text of a page: a Senior Women section, a Senior Men section, a Senior
\* Men section whose total carries an upper-case suffix, or no extractable
\* text.
Pages ==
    { <<"S", "e", "n", "i", "o", "r", " ", "W", "o", "m", "e", "n", ":", " ", "C", "l", "a", "s", "s", " ", "5", "5", "k", "g", " ", "1", "0", "0", "k", "g", " ", "T", "o", "t", "a", "l", " ", "1", "1", "0", " ", "1", "2", "0", " ">>,
      <<"S", "e", "n", "i", "o", "r", " ", "M", "e", "n", ":", " ", "C", "l", "a", "s", "s", " ", "5", "5", "k", "g", " ", "T", "o", "t", "a", "l", " ", "1", "2", "0", " ">>,
      <<"S", "e", "n", "i", "o", "r", " ", "M", "e", "n", ":", " ", "C", "l", "a", "s", "s", " ", "5", "5", "k", "g", " ", "T", "o", "t", "a", "l", " ", "1", "2", "0", "K", "G", " ">>,
      <<>> }

Documents == SeqsUpTo(Pages, MaxPages)

\* Lines 53-55: the text of all pages, concatenated in page order.
ExtractText(pages) == Concat(pages)

\* int(float(...)) and the sort key can be computed for every record; if
\* not, format_as_typescript raises ValueError.
Formattable(entries) ==
    \A k \in 1..Len(entries) :
        /\ IsFloatLiteral(entries[k].WeightStandard)
        /\ entries[k].WeightClass[1] = "+"
              \/ IsFloatLiteral(WithoutKg(entries[k].WeightClass))

Init ==
    /\ pc = "fetch_a"
    /\ raw = Unbound
    /\ cleaned = Idle
    /\ ExtractIdle
    /\ ScrapeIdle
    /\ a_data = Unbound
    /\ b_data = Unbound
    /\ j = Idle
    /\ age_group_data = Idle
    /\ typescript_output = Unbound
    /\ requested = <<>>
    /\ artifact = NoFile

\* Lines 48-55 of the call of line 161: the request, the status check, the
\* text of the pages.  An error status is an uncaught exception: the program
\* ends.
FetchA ==
    /\ pc = "fetch_a"
    /\ \E status \in HttpStatuses, document \in Documents :
          /\ requested' = Append(requested, [url |-> a_standards_url, status |-> status])
          /\ IF RaisesForStatus(status)
             THEN pc' = "aborted" /\ UNCHANGED raw
             ELSE pc' = "parse_a" /\ raw' = ExtractText(document)
    /\ UNCHANGED <<cleaned, extractVars, scrapeVars, formatVars, artifact>>

\* Lines 57-99 of the call of line 161: a_data is bound to the records.
ParseA ==
    /\ pc = "parse_a"
    /\ a_data' = scrape_weightlifting_standards(raw)
    /\ pc' = "fetch_b"
    /\ UNCHANGED <<cleanVars, extractVars, scrapeVars, b_data, j, age_group_data,
                   typescript_output, mainVars>>

\* Lines 48-55 of the call of line 162.
FetchB ==
    /\ pc = "fetch_b"
    /\ \E status \in HttpStatuses, document \in Documents :
          /\ requested' = Append(requested, [url |-> b_standards_url, status |-> status])
          /\ IF RaisesForStatus(status)
             THEN pc' = "aborted" /\ UNCHANGED raw
             ELSE pc' = "parse_b" /\ raw' = ExtractText(document)
    /\ UNCHANGED <<cleaned, extractVars, scrapeVars, formatVars, artifact>>

\* Lines 57-99 of the call of line 162.
ParseB ==
    /\ pc = "parse_b"
    /\ b_data' = scrape_weightlifting_standards(raw)
    /\ pc' = "format"
    /\ UNCHANGED <<cleanVars, extractVars, scrapeVars, a_data, j, age_group_data,
                   typescript_output, mainVars>>

\* Line 165: the tables are merged and serialised; a value that float()
\* rejects is an uncaught ValueError.
Format ==
    /\ pc = "format"
    /\ IF Formattable(a_data) /\ Formattable(b_data)
       THEN /\ typescript_output' = format_as_typescript(a_data, b_data)
            /\ pc' = "write"
       ELSE /\ pc' = "aborted"
            /\ UNCHANGED typescript_output
    /\ UNCHANGED <<cleanVars, extractVars, scrapeVars, a_data, b_data, j,
                   age_group_data, mainVars>>

\* Lines 168-172: the text is printed and written to qualifyingTotals.ts.
WriteFile ==
    /\ pc = "write"
    /\ artifact' = typescript_output
    /\ pc' = "done"
    /\ UNCHANGED <<cleanVars, extractVars, scrapeVars, formatVars, requested>>

Next == FetchA \/ ParseA \/ FetchB \/ ParseB \/ Format \/ WriteFile

Spec == Init /\ [][Next]_vars

(***************************************************************************)
(* Properties of the main program (Spec).                                  *)
(***************************************************************************)
\* The k-th request was answered with a non-success status.
FetchFailed(k) == requested[k].status \notin 200..299

\* C4: the run is strictly sequential and a failed fetch is fatal.  Each URL
\* is requested at most once, A before B; B is requested only after A was
\* fetched with success and parsed; the tables are merged only after B was
\* fetched with success and parsed; after a failed fetch the program has
\* ended and the file is not written; the file is written only after both
\* documents were fetched with success and parsed, and holds the merged text.
C4_SequentialAndFatal ==
    /\ Len(requested) <= 2
    /\ \A k \in 1..Len(requested) :
          requested[k].url = (IF k = 1 THEN a_standards_url ELSE b_standards_url)
    /\ a_data # Unbound => (Len(requested) >= 1 /\ ~FetchFailed(1))
    /\ Len(requested) = 2 => (~FetchFailed(1) /\ a_data # Unbound)
    /\ b_data # Unbound => (Len(requested) = 2 /\ ~FetchFailed(2))
    /\ typescript_output # Unbound => b_data # Unbound
    /\ (\E k \in 1..Len(requested) : FetchFailed(k)) =>
          (pc = "aborted" /\ artifact = NoFile)
    /\ artifact # NoFile =>
          /\ Len(requested) = 2
          /\ a_data # Unbound
          /\ b_data # Unbound
          /\ artifact = typescript_output

\* The B fetch failed after A was fetched and parsed: the run has ended, B
\* was requested once, no file is written.
C4_Witness ==
    /\ pc = "aborted"
    /\ Len(requested) = 2
    /\ FetchFailed(2)
    /\ a_data # Unbound
    /\ a_data # <<>>
    /\ artifact = NoFile

(***************************************************************************)
(* Properties of clean_text (SpecClean).                                   *)
(***************************************************************************)
ClaimWhitespace == {" ", "\t", "\n", NBSP}

\* The text with every maximal run of whitespace replaced by one space and
\* no whitespace at either end, built character by character: gap records
\* that whitespace was passed since the last character emitted.
RECURSIVE Collapsed(_, _, _)
Collapsed(t, started, gap) ==
    IF t = <<>> THEN <<>>
    ELSE IF Head(t) \in ClaimWhitespace THEN Collapsed(Tail(t), started, started)
    ELSE (IF gap THEN <<" ">> ELSE <<>>) \o <<Head(t)>> \o Collapsed(Tail(t), TRUE, FALSE)

\* The output of clean_text is the collapsed form of its input, holds no
\* other whitespace than single spaces inside, and is a fixed point.
CleanedIsCollapsed ==
    pc = "clean_done" =>
        /\ cleaned = Collapsed(raw, FALSE, FALSE)
        /\ \A k \in 1..Len(cleaned) : cleaned[k] \notin {"\t", "\n", NBSP}
        /\ \A k \in 1..(Len(cleaned) - 1) : ~(cleaned[k] = " " /\ cleaned[k + 1] = " ")
        /\ cleaned # <<>> => cleaned[1] # " " /\ cleaned[Len(cleaned)] # " "
        /\ clean_text(cleaned) = cleaned

\* C8: clean_text collapses every maximal run of whitespace (space, tab,
\* newline, non-breaking space, mixed) to one ordinary space and strips both
\* ends; its output holds no tab, newline, non-breaking space or two adjacent
\* spaces; cleaning the output again changes nothing; and varying which
\* whitespace characters form a run, or how many, leaves the output the same.
C8_CleanTextNormalises ==
    /\ []CleanedIsCollapsed
    /\ [][(pc = "clean_done" /\ pc' = "clean_done") => cleaned' = cleaned]_vars

\* A cleaned text whose input held a mixed run with a non-breaking space.
C8_Witness ==
    /\ pc = "clean_done"
    /\ raw = <<"a", NBSP, "\t", "b">>
    /\ cleaned = <<"a", " ", "b">>

(***************************************************************************)
(* Properties of extract_section_data (SpecExtract).                       *)
(***************************************************************************)
IsBareInteger(w) == w # <<>> /\ \A k \in 1..Len(w) : IsDigit(w[k])

EndsWithKg(w) == Len(w) > 2 /\ MatchLiteral(w, Len(w) - 1, StrKg)

\* C6: for every section text in which both patterns match, the weight
\* classes returned keep their kg suffix and every total returned is a bare
\* integer string without kg suffix, whatever the letter case in the text.
C6_TotalsAreBareIntegers ==
    pc = "extract_done" =>
        /\ \A k \in 1..Len(extracted[1]) : EndsWithKg(extracted[1][k])
        /\ \A k \in 1..Len(extracted[2]) : IsBareInteger(extracted[2][k])

\* The words of a section text that are complete weight-class labels, and
\* those that are complete totals.
IsLabelWord(w) == WeightTokenEnd(w, 1) = Len(w) + 1
IsTotalWord(w) == TotalTokenEnd(w, 1) = Len(w) + 1
LabelWords(t) == SelectSeq(Split(t), IsLabelWord)
TotalWords(t) == SelectSeq(Split(t), IsTotalWord)

C7_Example == <<"S", "e", "n", "i", "o", "r", " ", "M", "e", "n", ":", " ", "C", "L", "A", "S", "S", " ", "6", "0", "k", "g", " ", "6", "5", "k", "g", " ", "t", "o", "t", "a", "l", " ", "1", "2", "0", " ", "1", "3", "0", "k", "g", " ", "1", "2", "0">>

LabelAt(t, g, p) == MatchExact(t, p, section_labels[g])
Occurs(t, g) == \E p \in 1..Len(t) : LabelAt(t, g, p)
FirstOccurrence(t, g) ==
    CHOOSE p \in 1..Len(t) : LabelAt(t, g, p) /\ \A q \in 1..(p - 1) : ~LabelAt(t, g, q)

\* The records of data that belong to the age group g.
RecordsOf(d, g) == {k \in 1..Len(d) : d[k].AgeGroup = age_groups[g]}

\* One pass of the outer loop over a found section, against the lists that
\* extract_section_data gives for the section sliced.
C3_SectionStep ==
    (pc = "scrape_loop" /\ i <= Len(age_groups) /\ Occurs(text, i)) =>
        LET ex == extract_section_data(Slice(text, sections'[i]))
            n == Len(ex[1])
        IN  /\ pc' = "scrape_loop"
            /\ i' = i + 1
            /\ SubSeq(data', 1, Len(data)) = data
            /\ IF n = Len(ex[2])
               THEN /\ Len(data') = Len(data) + n
                    /\ \A k \in 1..n :
                          data'[Len(data) + k] =
                              [AgeGroup |-> age_groups[i],
                               WeightClass |-> ex[1][k],
                               WeightStandard |-> ex[2][k]]
               ELSE data' = data

\* C3: a found section whose n weight classes and n totals agree in number
\* appends exactly n records, the k-th pairing the k-th class with the k-th
\* total under the section's age group; a section whose counts differ appends
\* nothing; either way the loop goes on to the next group, and the function
\* returns only after all six groups.
C3_PairsOrDrops ==
    /\ [][C3_SectionStep]_vars
    /\ [](pc = "scrape_done" => i = Len(age_groups) + 1)

\* A finished run in which a section with mismatched counts was dropped and
\* a later group still gave its two records.
C3_Witness ==
    /\ pc = "scrape_done"
    /\ \E g \in 1..Len(age_groups), h \in 1..Len(age_groups) :
          /\ g < h
          /\ sections[g] # <<0, 0>>
          /\ LET ex == extract_section_data(Slice(text, sections[g]))
             IN  Len(ex[1]) # Len(ex[2])
          /\ RecordsOf(data, g) = {}
          /\ Cardinality(RecordsOf(data, h)) = 2

\* C5: a group whose label does not occur gets no section and no record; a
\* found group's section starts at the first occurrence of its label and ends
\* at the first occurrence of the first later group (in list order) whose
\* label occurs, absent ones skipped, or at the end of the text.
C5_SectionBounds ==
    pc = "scrape_done" =>
        \A g \in 1..Len(age_groups) :
            IF ~Occurs(text, g)
            THEN sections[g] = <<0, 0>> /\ RecordsOf(data, g) = {}
            ELSE LET later == {h \in (g + 1)..Len(age_groups) : Occurs(text, h)}
                 IN  /\ sections[g][1] = FirstOccurrence(text, g)
                     /\ sections[g][2] =
                           IF later = {} THEN Len(text) + 1
                           ELSE FirstOccurrence(text, MinOf(later))

C5_Example ==
    <<"S", "e", "n", "i", "o", "r", " ", "W", "o", "m", "e", "n", ":", " ", "C", "l", "a", "s", "s", " ", "6", "0", "k", "g", " ", "+", "8", "7", "k", "g", " ", "T", "o", "t", "a", "l", " ", "1", "2", "0", " ", "1", "3", "0", "k", "g", " ", "S", "e", "n", "i", "o", "r", " ", "M", "e", "n", ":", " ", "C", "l", "a", "s", "s", " ", "6", "0", "k", "g", " ", "T", "o", "t", "a", "l", " ", "1", "2", "0", " ", "1", "3", "0">>

\* "Senior Women:" then "Senior Men:", both sliced: the first up to the start
\* of the second label, the second to the end of the text.
C5_Witness ==
    /\ pc = "scrape_done"
    /\ text = C5_Example
    /\ sections[5] = <<1, 48>>
    /\ sections[6] = <<48, Len(text) + 1>>
    /\ sections[1] = <<0, 0>>

\* The character positions of the section of group g.
Span(g) == {p \in 1..Len(text) : sections[g][1] <= p /\ p < sections[g][2]}
Found == {g \in 1..Len(age_groups) : sections[g] # <<0, 0>>}

\* C9 as stated: whatever the order of the labels in the text, no character
\* position belongs to the sections of two different found labels.
C9_SectionsNeverOverlap ==
    pc = "scrape_done" =>
        \A g \in Found, h \in Found : g # h => Span(g) \cap Span(h) = {}

\* The labels that occur do so in list order (by first occurrence).
InListOrder(t) ==
    \A g \in 1..Len(age_groups), h \in 1..Len(age_groups) :
        (g < h /\ Occurs(t, g) /\ Occurs(t, h))
            => FirstOccurrence(t, g) < FirstOccurrence(t, h)

\* C9 as amended: when the first occurrences of the labels that occur follow
\* the list order, the sections of the found labels are pairwise disjoint and
\* contiguous: each ends where the section of the next found label starts,
\* the last at the end of the text, whatever labels are missing in between.
C9_SectionsDisjointInListOrder ==
    (pc = "scrape_done" /\ InListOrder(text)) =>
        /\ \A g \in Found, h \in Found : g # h => Span(g) \cap Span(h) = {}
        /\ \A g \in Found :
              LET later == {h \in Found : h > g}
              IN  sections[g][2] =
                     IF later = {} THEN Len(text) + 1 ELSE sections[MinOf(later)][1]
        /\ \A g \in Found : sections[g][1] < sections[g][2]

\* Two found labels in list order with missing labels between them.
C9_Witness ==
    /\ pc = "scrape_done"
    /\ InListOrder(text)
    /\ Found = {1, 6}
    /\ sections[1][2] = sections[6][1]
    /\ Span(1) # {}
    /\ Span(6) # {}

(***************************************************************************)
(* Properties of format_as_typescript (SpecFormat).                        *)
(***************************************************************************)
\* The (ageBracket, genderedWeightClass) key of a record, from the position
\* of its age group in the list: Youth, Junior, Senior by pairs, women first.
GroupIndex(r) == CHOOSE g \in 1..Len(age_groups) : age_groups[g] = r.AgeGroup
ClaimKey(r) ==
    <<brackets[(GroupIndex(r) + 1) \div 2],
      (IF GroupIndex(r) % 2 = 1 THEN StrFemale ELSE StrMale) \o <<" ">> \o r.WeightClass>>

\* The integer standard of a record.
ClaimStandard(r) ==
    CASE r.WeightStandard = <<"1", "1", "0">> -> 110
      [] r.WeightStandard = <<"1", "2", "0">> -> 120

KeysOf(table) == {ClaimKey(table[k]) : k \in 1..Len(table)}
DistinctKeys(table) ==
    \A m \in 1..Len(table), n \in 1..Len(table) :
        m # n => ClaimKey(table[m]) # ClaimKey(table[n])

\* The standard of the first (last) record of the table with the key, 0 when
\* no record has it.
FirstStandard(table, key) ==
    LET at == {k \in 1..Len(table) : ClaimKey(table[k]) = key}
    IN  IF at = {} THEN 0 ELSE ClaimStandard(table[MinOf(at)])
LastStandard(table, key) ==
    LET at == {k \in 1..Len(table) : ClaimKey(table[k]) = key}
    IN  IF at = {} THEN 0
        ELSE ClaimStandard(table[CHOOSE k \in at : \A n \in at : n <= k])

\* The entry lines of the output, and the bracket each stands in.
EntryLines == {n \in 1..Len(typescript_output) : typescript_output[n].line = "entry"}
BracketLineOf(n) ==
    CHOOSE m \in 1..n :
        /\ typescript_output[m].line = "bracket"
        /\ \A q \in (m + 1)..n : typescript_output[q].line # "bracket"
LeafOf(n) ==
    <<typescript_output[BracketLineOf(n)].age_group, typescript_output[n].weight_class,
      typescript_output[n].a, typescript_output[n].b>>
Leaves == {LeafOf(n) : n \in EntryLines}

\* C1: for tables whose keys are each distinct, the emitted keys are exactly
\* the union of the keys of both tables, once each, and the leaf of a key is
\* {a, b} with a the standard of the A record with that key (0 if none) and b
\* the standard of the B record with that key (0 if none).
C1_MergeByKey ==
    (pc = "format_done" /\ DistinctKeys(a_data) /\ DistinctKeys(b_data)) =>
        /\ Leaves = { <<key[1], key[2], FirstStandard(a_data, key), FirstStandard(b_data, key)>> :
                        key \in KeysOf(a_data) \cup KeysOf(b_data) }
        /\ Cardinality(EntryLines) = Cardinality(KeysOf(a_data) \cup KeysOf(b_data))

\* One output with a key in both tables, an A-only key and a B-only key.
C1_Witness ==
    /\ pc = "format_done"
    /\ DistinctKeys(a_data)
    /\ DistinctKeys(b_data)
    /\ <<brackets[3], <<"F", "e", "m", "a", "l", "e", " ", "5", "5", "k", "g">>, 110, 120>> \in Leaves
    /\ <<brackets[3], <<"F", "e", "m", "a", "l", "e", " ", "1", "0", "0", "k", "g">>, 110, 0>> \in Leaves
    /\ <<brackets[1], <<"F", "e", "m", "a", "l", "e", " ", "5", "5", "k", "g">>, 0, 120>> \in Leaves

\* The gender and the weight of an emitted key.
IsFemaleKey(wc) == SubSeq(wc, 1, 7) = StrFemale \o <<" ">>
ClassOfKey(wc) == IF IsFemaleKey(wc) THEN SubSeq(wc, 8, Len(wc)) ELSE SubSeq(wc, 6, Len(wc))
IsOpenKey(wc) == ClassOfKey(wc)[1] = "+"
KgOfKey(wc) ==
    CASE ClassOfKey(wc) = <<"5", "5", "k", "g">> -> 55
      [] ClassOfKey(wc) = <<"1", "0", "0", "k", "g">> -> 100

\* The entry of line m may stand before the entry of line n.
InOrder(m, n) ==
    LET x == typescript_output[m].weight_class
        y == typescript_output[n].weight_class
    IN  IF IsFemaleKey(x) # IsFemaleKey(y) THEN IsFemaleKey(x)
        ELSE IF IsOpenKey(x) THEN IsOpenKey(y)
        ELSE IsOpenKey(y) \/ KgOfKey(x) <= KgOfKey(y)

\* C2: the output holds the brackets Youth, Junior, Senior in that order, each
\* present even when empty, and within a bracket the entries stand Female
\* before Male, then by ascending numeric weight, every open class after all
\* finite classes of its gender, whatever the order of insertion.
C2_SortedOutput ==
    pc = "format_done" =>
        /\ SelectSeq(typescript_output, LAMBDA ln : ln.line = "bracket")
              = [k \in 1..Len(brackets) |-> [line |-> "bracket", age_group |-> brackets[k]]]
        /\ \A m \in EntryLines, n \in EntryLines :
              (m < n /\ BracketLineOf(m) = BracketLineOf(n)) => InOrder(m, n)

\* Four Senior entries inserted in an order that is not the sorted one.
C2_Witness ==
    /\ pc = "format_done"
    /\ Len(a_data) = 2
    /\ a_data[1].WeightClass = <<"+", "8", "7", "k", "g">>
    /\ a_data[2].AgeGroup = age_groups[6]
    /\ Len(b_data) = 2
    /\ b_data[1].WeightClass = <<"1", "0", "0", "k", "g">>
    /\ b_data[2].WeightClass = <<"5", "5", "k", "g">>
    /\ b_data[2].AgeGroup = age_groups[5]
    /\ [n \in 1..4 |-> typescript_output[6 + n].weight_class]
          = << <<"F", "e", "m", "a", "l", "e", " ", "5", "5", "k", "g">>, <<"F", "e", "m", "a", "l", "e", " ", "1", "0", "0", "k", "g">>, <<"F", "e", "m", "a", "l", "e", " ", "+", "8", "7", "k", "g">>, <<"M", "a", "l", "e", " ", "5", "5", "k", "g">> >>

\* The entries of the table while it is built, as <<bracket, key>> -> leaf.
Held(agd) ==
    UNION { {<<k, agd[k][n].weight_class>> : n \in 1..Len(agd[k])} : k \in 1..Len(brackets) }
LeafHeld(agd, k, wc) ==
    LET n == CHOOSE n \in 1..Len(agd[k]) : agd[k][n].weight_class = wc
    IN  agd[k][n]

\* The leaves of the output, by first A record and last B record of each key.
C10_FirstALastB ==
    pc = "format_done" =>
        /\ Leaves = { <<key[1], key[2], FirstStandard(a_data, key), LastStandard(b_data, key)>> :
                        key \in KeysOf(a_data) \cup KeysOf(b_data) }
        /\ Cardinality(EntryLines) = Cardinality(KeysOf(a_data) \cup KeysOf(b_data))

\* One table entry processed: the entries that exist keep their place, and
\* an A record changes none of them, a B record none of their a fields.
C10_RecordStep ==
    /\ (pc = "format_a" /\ pc' = "format_a") =>
          \A e \in Held(age_group_data) :
              /\ e \in Held(age_group_data')
              /\ LeafHeld(age_group_data', e[1], e[2]) = LeafHeld(age_group_data, e[1], e[2])
    /\ (pc = "format_b" /\ pc' = "format_b") =>
          \A e \in Held(age_group_data) :
              /\ e \in Held(age_group_data')
              /\ LeafHeld(age_group_data', e[1], e[2]).a = LeafHeld(age_group_data, e[1], e[2]).a

\* C10: with several records of one key in a table, the a of the leaf is the
\* standard of the first A record with the key and the b that of the last B
\* record with the key; an A record changes no entry that exists already (so
\* no b field), and a B record changes no a field of an existing entry.
C10_DuplicatesAsymmetric ==
    /\ []C10_FirstALastB
    /\ [][C10_RecordStep]_vars

\* The same key twice in each table with different standards: a is the first
\* A standard, b the last B standard.
C10_Witness ==
    /\ pc = "format_done"
    /\ Len(a_data) = 2
    /\ Len(b_data) = 2
    /\ KeysOf(a_data) \cup KeysOf(b_data) = {<<brackets[3], <<"F", "e", "m", "a", "l", "e", " ", "5", "5", "k", "g">>>>}
    /\ ClaimStandard(a_data[1]) = 110
    /\ ClaimStandard(a_data[2]) = 120
    /\ ClaimStandard(b_data[1]) = 110
    /\ ClaimStandard(b_data[2]) = 120
    /\ Leaves = {<<brackets[3], <<"F", "e", "m", "a", "l", "e", " ", "5", "5", "k", "g">>, 110, 120>>}

====
